---- MODULE Spec2Model ----
(***************************************************************************)
(* Model of the vowel synthesizer of src/astro.config.mjs:                 *)
(* VowelSynthesizerCore (formant interpolation, gender scaling, bandwidth  *)
(* and Q, the audio graph's parameter targets) and the VowelSynthesizer    *)
(* widget that drives it; and of the sawtooth generator of                 *)
(* src/components/SawtoothGenerator.tsx (SawtoothGeneratorCore and the     *)
(* SawtoothGenerator widget).  The two widgets share no state.             *)
(*                                                                         *)
(* Numbers.  The code computes in JavaScript doubles.  Here every quantity *)
(* is a scaled integer:                                                    *)
(*   positions       in 1/PosUnits            (the widget's percent values)*)
(*   distances       in 1/(PosUnits*SubDiv)   (Math.sqrt rounded down)     *)
(*   gender factor   in 1/100                 (slider value / 100)         *)
(*   quality factor  in 1/50                  ((slider value - 50) / 50)   *)
(*   frequencies, bandwidths, Q  in 1/FracHz  (each product or quotient    *)
(*                                             rounded down once)          *)
(* Weights are kept as exact fractions.  Squared distances are exact, so   *)
(* the order and the ties of the sort are those of exact arithmetic.       *)
(***************************************************************************)
EXTENDS Integers, Sequences, FiniteSets

VARIABLES
    VOWELS,         \* the anchor catalog (module-level object, line 25)
    vowelX,         \* core.vowelX, in 1/PosUnits
    vowelY,         \* core.vowelY, in 1/PosUnits
    genderFactor,   \* core.genderFactor, in 1/100
    qualityFactor,  \* core.qualityFactor, in 1/50
    volume,         \* core.volume, in 1/2 (the slider value / 2)
    isRunning,      \* core.isRunning
    audioContext,   \* state of core.audioContext: "null", "running", "closed"
    oscillator,     \* core.oscillator: its frequency target and state
    filters,        \* core.filters: each filter's frequency and Q target
    masterGain,     \* core.masterGain: its gain value
    uiIsRunning,    \* the widget's isRunning state
    gender,         \* the widget's gender state (slider value)
    quality,        \* the widget's quality state (slider value)
    pitch,          \* the widget's pitch state (slider value, Hz)
    uiVolume,       \* the widget's volume state (slider value)
    isDragging,     \* the widget's isDragging state
    call,           \* the model function applied last by a direct call
    ret,            \* what that call computed
    orphans,        \* the oscillator states of the audio contexts the vowel
                    \* core opened, never closed and no longer refers to
    animationFrameRef,  \* the widget's animationFrameRef.current; 0 is null
    frameRequests,  \* the widget's animation-frame requests the browser
                    \* has pending
    waveformCanvas, \* what the widget's waveform canvas shows
    mounted,        \* the vowel widget is on the page
    sawCore,        \* the SawtoothGeneratorCore's fields
    sawWidget       \* the SawtoothGenerator widget's state, refs, requests

control == <<vowelX, vowelY, genderFactor, qualityFactor>>

audio == <<volume, isRunning, audioContext, oscillator, filters, masterGain>>

widget == <<uiIsRunning, gender, quality, pitch, uiVolume, isDragging>>

animation == <<animationFrameRef, frameRequests, waveformCanvas, mounted>>

sawtooth == <<sawCore, sawWidget>>

vars ==
    <<VOWELS, control, audio, widget, call, ret, orphans, animation, sawtooth>>

----------------------------------------------------------------------------
(* Units *)

\* value / 100 turns a percent value into a position (lines 335, 447)
PosUnits == 100

\* distance units per position unit
SubDiv == 10

\* frequency units per Hz; Q units per 1
FracHz == 1000

DistUnits == PosUnits * SubDiv

\* a / b of doubles where b may be 0: JavaScript yields Infinity (or NaN)
NotFinite == 2147483647

----------------------------------------------------------------------------
(* Arithmetic *)

Min(a, b) == IF a <= b THEN a ELSE b

Max(a, b) == IF a >= b THEN a ELSE b

RECURSIVE SqrtSearch(_, _, _)
SqrtSearch(n, lo, hi) ==
    IF lo >= hi THEN lo
    ELSE LET mid == (lo + hi + 1) \div 2
         IN  IF mid * mid <= n THEN SqrtSearch(n, mid, hi)
                               ELSE SqrtSearch(n, lo, mid - 1)

\* Math.sqrt, rounded down to an integer
Sqrt(n) == SqrtSearch(n, 0, Min(n, 46340))

\* a * b / c rounded down, for a >= 0, b >= 0, c > 0, without overflow
\* while b * c and the result fit
MulDiv(a, b, c) == (a \div c) * b + ((a % c) * b) \div c

\* a / b in units of 1/FracHz; a division by zero is not finite
Quot(a, b) == IF b <= 0 THEN NotFinite ELSE MulDiv(a, FracHz, b)

----------------------------------------------------------------------------
(* The anchor catalog, in the order Object.entries enumerates it *)

VowelTable == <<
    [name |-> "i",  formants |-> <<270, 2290, 3010>>, pos |-> <<90, 90>>],
    [name |-> "I",  formants |-> <<390, 1990, 2550>>, pos |-> <<85, 75>>],
    [name |-> "e",  formants |-> <<530, 1840, 2480>>, pos |-> <<80, 60>>],
    [name |-> "E",  formants |-> <<660, 1720, 2410>>, pos |-> <<70, 40>>],
    [name |-> "ae", formants |-> <<860, 1550, 2410>>, pos |-> <<70, 20>>],
    [name |-> "@",  formants |-> <<490, 1350, 1690>>, pos |-> <<50, 50>>],
    [name |-> "A",  formants |-> <<730, 1090, 2440>>, pos |-> <<40, 15>>],
    [name |-> "O",  formants |-> <<570, 840, 2410>>,  pos |-> <<30, 35>>],
    [name |-> "o",  formants |-> <<450, 870, 2410>>,  pos |-> <<20, 55>>],
    [name |-> "u",  formants |-> <<300, 870, 2240>>,  pos |-> <<10, 90>>],
    [name |-> "U",  formants |-> <<440, 1020, 2240>>, pos |-> <<15, 75>>] >>

----------------------------------------------------------------------------
(* VowelSynthesizerCore.interpolateFormants *)

\* lines 123-126: the entry pushed for anchor k.  dist2 is dx*dx + dy*dy
\* (exact), dist is its square root in distance units.
DistanceEntry(k, x, y) ==
    [name |-> VOWELS[k].name, data |-> VOWELS[k],
     dist2 |-> (VOWELS[k].pos[1] - x) * (VOWELS[k].pos[1] - x)
             + (VOWELS[k].pos[2] - y) * (VOWELS[k].pos[2] - y),
     dist |-> Sqrt(((VOWELS[k].pos[1] - x) * (VOWELS[k].pos[1] - x)
                  + (VOWELS[k].pos[2] - y) * (VOWELS[k].pos[2] - y))
                  * SubDiv * SubDiv)]

RECURSIVE DistancesUpTo(_, _, _)
DistancesUpTo(k, x, y) ==
    IF k = 0 THEN <<>>
    ELSE Append(DistancesUpTo(k - 1, x, y), DistanceEntry(k, x, y))

\* lines 120-127: one entry per anchor, in catalog order
Distances(x, y) == DistancesUpTo(Len(VOWELS), x, y)

\* a comparator that also reports an equally distant entry as closer
CloserOrEqual(a, b) == a.dist2 <= b.dist2

\* the comparator of line 129, (a, b) => a.dist - b.dist, is negative.  The
\* square root is strictly increasing, so dist compares as dist2 does.
Closer(a, b) == a.dist2 < b.dist2

\* e placed into the sorted s behind every entry it is not closer than
RECURSIVE InsertByDist(_, _)
InsertByDist(s, e) ==
    IF s = <<>> THEN <<e>>
    ELSE IF Closer(e, Head(s)) THEN <<e>> \o s
    ELSE <<Head(s)>> \o InsertByDist(Tail(s), e)

\* line 129: Array.prototype.sort, which is stable: entries that compare
\* equal keep their catalog order
RECURSIVE SortByDist(_)
SortByDist(s) ==
    IF s = <<>> THEN <<>>
    ELSE InsertByDist(SortByDist(SubSeq(s, 1, Len(s) - 1)), s[Len(s)])

\* line 130: distances.slice(0, 3)
Nearest(x, y) == SubSeq(SortByDist(Distances(x, y)), 1, 3)

\* the divisor with an offset of 0.1
DivisorTenth(v) == v.dist + DistUnits \div 10

\* the divisor without the 0.01 offset
DivisorNoOffset(v) == v.dist

\* line 134: 1.0 / (v.dist + 0.01), as the divisor dist + 0.01 in distance
\* units; the weight is DistUnits / Divisor
Divisor(v) == v.dist + DistUnits \div 100

\* a weight that grows with the distance instead of its inverse
WeightDirect(d, da, db) == d

\* one weight over the common denominator d1*d2*d3/DistUnits: the product
\* of the other two divisors.  A zero divisor makes the weight Infinity.
Weight(d, da, db) == IF d = 0 THEN NotFinite ELSE da * db

\* lines 133-137: nearest.map(v => 1.0 / (v.dist + 0.01))
Weights(nearest) ==
    << Weight(Divisor(nearest[1]), Divisor(nearest[2]), Divisor(nearest[3])),
       Weight(Divisor(nearest[2]), Divisor(nearest[1]), Divisor(nearest[3])),
       Weight(Divisor(nearest[3]), Divisor(nearest[1]), Divisor(nearest[2])) >>

\* a total that misses the last weight
TotalWeightShort(weights) ==
    IF \E j \in 1..3 : weights[j] = NotFinite THEN NotFinite
    ELSE weights[1] + weights[2]

\* lines 132, 135: totalWeight accumulates every weight
TotalWeight(weights) ==
    IF \E j \in 1..3 : weights[j] = NotFinite THEN NotFinite
    ELSE weights[1] + weights[2] + weights[3]

\* w / totalWeight as the fraction <<numerator, denominator>>;
\* Infinity / Infinity and 0 / 0 are NaN
Normalize(w, totalWeight) ==
    IF totalWeight = NotFinite \/ totalWeight = 0 THEN <<NotFinite, 1>>
    ELSE <<w, totalWeight>>

\* line 139: weights.map(w => w / totalWeight)
NormalizedWeights(weights, totalWeight) ==
    << Normalize(weights[1], totalWeight),
       Normalize(weights[2], totalWeight),
       Normalize(weights[3], totalWeight) >>

\* t1/T + t2/T + t3/T in frequency units, rounded down once
SumOver(t1, t2, t3, T) ==
    ((t1 \div T) + (t2 \div T) + (t3 \div T)
        + (((t1 % T) + (t2 % T) + (t3 % T)) \div T)) * FracHz
    + MulDiv(((t1 % T) + (t2 % T) + (t3 % T)) % T, FracHz, T)

\* lines 143-145: formants[i] = sum over j of nearest[j].data.formants[i]
\* * normalizedWeights[j]
Blend(nearest, nw, i) ==
    IF \E j \in 1..3 : nw[j][1] = NotFinite THEN NotFinite
    ELSE SumOver(nearest[1].data.formants[i] * nw[1][1],
                 nearest[2].data.formants[i] * nw[2][1],
                 nearest[3].data.formants[i] * nw[3][1], nw[1][2])

\* the locals of interpolateFormants when it returns
BlendLocals(nearest, weights, nw) ==
    [nearest |-> nearest, weights |-> weights, normalizedWeights |-> nw,
     formants |-> <<Blend(nearest, nw, 1), Blend(nearest, nw, 2),
                    Blend(nearest, nw, 3)>>]

WeighLocals(nearest, weights) ==
    BlendLocals(nearest, weights,
                NormalizedWeights(weights, TotalWeight(weights)))

InterpolateLocals(x, y) ==
    WeighLocals(Nearest(x, y), Weights(Nearest(x, y)))

interpolateFormants(x, y) == InterpolateLocals(x, y).formants

----------------------------------------------------------------------------
(* VowelSynthesizerCore.scaleFormantsForGender, calculateBandwidth and the
   body of updateVowel *)

\* a scale that keeps the adult slope above the breakpoint
GenderScaleOneSlope(g) == 10000 + 18 * g

\* lines 152-157: scale, in 1/10000, of a gender factor g in 1/100:
\* 1.0 + 0.18*g up to 1.0, 1.18 + 0.25*(g - 1.0) above
GenderScale(g) ==
    IF g <= 100 THEN 10000 + 18 * g
    ELSE 11800 + 25 * (g - 100)

\* line 159: f * scale
Scaled(f, scale) ==
    IF f = NotFinite THEN NotFinite ELSE MulDiv(f, scale, 10000)

scaleFormantsForGender(formants, g) ==
    [i \in 1..3 |-> Scaled(formants[i], GenderScale(g))]

\* a multiplier with the breathy slope on both sides
QualityMultOneSlope(q) == <<100 + q, 100>>

\* a multiplier whose tense side falls with slope 1.0
QualityMultSteep(q) ==
    IF q >= 0 THEN <<100 + q, 100>> ELSE <<50 + q, 50>>

\* lines 164-166: mult, as the fraction <<numerator, denominator>>, of a
\* quality factor q in 1/50: 1.0 + 0.5*q from 0 up, 1.0 + 0.3*q below
QualityMult(q) ==
    IF q >= 0 THEN <<100 + q, 100>> ELSE <<500 + 3 * q, 500>>

\* a base bandwidth with a fixed part of 50 Hz
BaseBandwidthOffset(formantFreq) ==
    MulDiv(formantFreq, 8, 100) + 50 * FracHz

\* line 163: formantFreq * 0.08
BaseBandwidth(formantFreq) == MulDiv(formantFreq, 8, 100)

\* lines 162-169
calculateBandwidth(formantFreq, q) ==
    IF formantFreq = NotFinite THEN NotFinite
    ELSE MulDiv(BaseBandwidth(formantFreq), QualityMult(q)[1], QualityMult(q)[2])

\* lines 180-185: the frequency and Q handed to filter i
FilterTarget(freq, q) ==
    [frequency |-> freq,
     Q |-> IF freq = NotFinite \/ calculateBandwidth(freq, q) = NotFinite
           THEN NotFinite
           ELSE Quot(freq, calculateBandwidth(freq, q))]

\* lines 174-186: what updateVowel hands to the 3 filters
FilterTargetsOf(formants, q) ==
    <<FilterTarget(formants[1], q), FilterTarget(formants[2], q),
      FilterTarget(formants[3], q)>>

FilterTargets(x, y, g, q) ==
    FilterTargetsOf(scaleFormantsForGender(interpolateFormants(x, y), g), q)

----------------------------------------------------------------------------
(* A direct call of interpolateFormants at every position of the chart *)

Positions == 0..PosUnits

NoCall == [fn |-> "none"]

\* a node field that is still null
NullNode == [node |-> FALSE]

\* SawtoothGenerator.tsx lines 4-13: the sawtooth core after construction;
\* the volume is in 1/100 (the slider value / 100)
SawtoothCoreInit ==
    [isRunning |-> FALSE, pitch |-> 120, volume |-> 50,
     audioContext |-> "null", oscillator |-> NullNode,
     masterGain |-> NullNode, orphans |-> {}]

\* SawtoothGenerator.tsx lines 74-80 and 94-96: the sawtooth widget after
\* its first render and mount effect
SawtoothWidgetInit ==
    [isRunning |-> FALSE, pitch |-> 120, volume |-> 50,
     animationFrameRef |-> 0, frameRequests |-> {},
     waveformCanvas |-> "instruction", mounted |-> TRUE]

\* the widgets a page may hold
Pages == {"vowel", "sawtooth"}

\* the page holds one widget; the other is never mounted
OnPage(widgetName) ==
    /\ mounted = (widgetName = "vowel")
    /\ sawWidget =
           [SawtoothWidgetInit EXCEPT !.mounted = (widgetName = "sawtooth")]

\* lines 40-47, 54 and 222-229: the audio fields and the widget's state
\* after construction
AudioInit ==
    /\ volume = 50
    /\ isRunning = FALSE
    /\ audioContext = "null"
    /\ oscillator = NullNode
    /\ filters = <<>>
    /\ masterGain = NullNode
    /\ uiIsRunning = FALSE
    /\ gender = 0
    /\ quality = 50
    /\ pitch = 120
    /\ uiVolume = 50
    /\ isDragging = FALSE
    /\ orphans = {}
    /\ animationFrameRef = 0
    /\ frameRequests = {}
    /\ waveformCanvas = "instruction"
    /\ sawCore = SawtoothCoreInit

InitInterpolate ==
    /\ VOWELS = VowelTable
    /\ vowelX \in Positions
    /\ vowelY \in Positions
    /\ genderFactor = 0
    /\ qualityFactor = 0
    /\ call = "none"
    /\ ret = NoCall
    /\ AudioInit
    /\ OnPage("vowel")

CallInterpolate ==
    /\ call = "none"
    /\ call' = "interpolateFormants"
    /\ ret' = [fn |-> "interpolateFormants",
               locals |-> InterpolateLocals(vowelX, vowelY),
               formants |-> interpolateFormants(vowelX, vowelY)]
    /\ UNCHANGED <<VOWELS, control, audio, widget>>
    /\ UNCHANGED <<orphans, animation, sawtooth>>

SpecInterpolate == InitInterpolate /\ [][CallInterpolate]_vars

----------------------------------------------------------------------------
(* Direct calls of the pipeline's functions, one after the other, and of
   the whole pipeline, over a grid of positions, gender and quality
   factors *)

AnchorCoordinates(c) == {VowelTable[k].pos[c] : k \in 1..Len(VowelTable)}

ProbeX == AnchorCoordinates(1) \cup {0, PosUnits}

ProbeY == AnchorCoordinates(2) \cup {0, PosUnits}

\* gender factors, in 1/100: below 0, the slider's range 0..200
ProbeGender == {-100, 0, 50, 100, 150, 200}

\* quality factors, in 1/50: the slider's range -1..1
ProbeQuality == {-50, -25, 0, 25, 50}

InitCalls ==
    /\ VOWELS = VowelTable
    /\ vowelX \in ProbeX
    /\ vowelY \in ProbeY
    /\ genderFactor \in ProbeGender
    /\ qualityFactor \in ProbeQuality
    /\ call = "none"
    /\ ret = NoCall
    /\ AudioInit
    /\ OnPage("vowel")

CallScale ==
    /\ call = "interpolateFormants"
    /\ call' = "scaleFormantsForGender"
    /\ ret' = [fn |-> "scaleFormantsForGender",
               arg |-> ret.formants,
               formants |-> scaleFormantsForGender(ret.formants, genderFactor)]
    /\ UNCHANGED <<VOWELS, control, audio, widget>>
    /\ UNCHANGED <<orphans, animation, sawtooth>>

CallBandwidth ==
    /\ call = "scaleFormantsForGender"
    /\ call' = "calculateBandwidth"
    /\ ret' = [fn |-> "calculateBandwidth",
               arg |-> ret.formants,
               bw |-> [i \in 1..3 |->
                          calculateBandwidth(ret.formants[i], qualityFactor)]]
    /\ UNCHANGED <<VOWELS, control, audio, widget>>
    /\ UNCHANGED <<orphans, animation, sawtooth>>

CallRecompute ==
    /\ call = "none"
    /\ call' = "recompute"
    /\ ret' = [fn |-> "recompute",
               targets |-> FilterTargets(vowelX, vowelY, genderFactor,
                                         qualityFactor)]
    /\ UNCHANGED <<VOWELS, control, audio, widget>>
    /\ UNCHANGED <<orphans, animation, sawtooth>>

NextCalls == CallInterpolate \/ CallScale \/ CallBandwidth \/ CallRecompute

SpecCalls == InitCalls /\ [][NextCalls]_vars

----------------------------------------------------------------------------
(* VowelSynthesizerCore's audio session and the VowelSynthesizer widget *)

\* line 506: the chart canvas' width
CanvasWidth == 600

\* line 507: the chart canvas' height
CanvasHeight == 400

\* line 65: oscillator.frequency.value on creation
StartFrequency == 120

\* line 76: filter.Q.value on creation
StartQ == 5

\* a new BiquadFilterNode's frequency, Hz (the host's default)
DefaultFilterFrequency == 350

\* lines 73-78: a filter as start creates it
NewFilter == [frequency |-> DefaultFilterFrequency * FracHz, Q |-> StartQ * FracHz]

\* an interpolation that sorts the catalog's own entries in place
CatalogSortedInPlace(x, y) ==
    [k \in 1..Len(VOWELS) |-> SortByDist(Distances(x, y))[k].data]

\* lines 120-130: the catalog after interpolateFormants(x, y): distances
\* is a fresh array, so the sort leaves VOWELS as it was
CatalogAfterInterpolate(x, y) == VOWELS

\* an updateVowel that leaves the filters as they are
updateVowelSkipped(run, ctx, flt, x, y, g, q) == flt

\* lines 171-187: the filters after updateVowel() with the given fields
updateVowel(run, ctx, flt, x, y, g, q) ==
    IF ~run \/ ctx = "null" THEN flt ELSE FilterTargets(x, y, g, q)

\* the catalog after updateVowel() with the given fields
CatalogAfterUpdate(run, ctx, x, y) ==
    IF ~run \/ ctx = "null" THEN VOWELS ELSE CatalogAfterInterpolate(x, y)

\* where start() may throw: nowhere, at line 60 (no context is made), at
\* line 74 (the first filter cannot be made), at line 100 (the oscillator
\* cannot be started).  After line 100 only updateVowel() is called
\* (line 103): it computes on numbers and sets parameter targets that are
\* finite for every control state the setters store, which does not throw.
ThrowPoints == {"none", "context", "filter", "oscillatorStart"}

NewOscillator(state) ==
    [node |-> TRUE, frequency |-> StartFrequency, state |-> state]

\* line 60: the assignment drops the reference to the context the field
\* held; nothing closes a context that a failed start() has left open
Orphaned(ctx, osc, left) ==
    IF ctx = "running" /\ osc.node THEN left \cup {osc.state} ELSE left

\* lines 56-109: the fields start() leaves when called while not running
start(throwAt) ==
    CASE throwAt = "context" ->
           [audioContext |-> audioContext, oscillator |-> oscillator,
            filters |-> filters, masterGain |-> masterGain,
            isRunning |-> FALSE, VOWELS |-> VOWELS, orphans |-> orphans]
      [] throwAt = "filter" ->
           [audioContext |-> "running", oscillator |-> NewOscillator("created"),
            filters |-> <<>>, masterGain |-> masterGain,
            isRunning |-> FALSE, VOWELS |-> VOWELS,
            orphans |-> Orphaned(audioContext, oscillator, orphans)]
      [] throwAt = "oscillatorStart" ->
           [audioContext |-> "running", oscillator |-> NewOscillator("created"),
            filters |-> <<NewFilter, NewFilter, NewFilter>>,
            masterGain |-> [node |-> TRUE, gain |-> volume],
            isRunning |-> FALSE, VOWELS |-> VOWELS,
            orphans |-> Orphaned(audioContext, oscillator, orphans)]
      [] throwAt = "none" ->
           [audioContext |-> "running", oscillator |-> NewOscillator("started"),
            filters |-> updateVowel(TRUE, "running",
                                    <<NewFilter, NewFilter, NewFilter>>,
                                    vowelX, vowelY, genderFactor, qualityFactor),
            masterGain |-> [node |-> TRUE, gain |-> volume],
            isRunning |-> TRUE,
            VOWELS |-> CatalogAfterUpdate(TRUE, "running", vowelX, vowelY),
            orphans |-> Orphaned(audioContext, oscillator, orphans)]

\* a stop() that only clears the flag
stopFlagOnly ==
    /\ isRunning
    /\ isRunning' = FALSE
    /\ UNCHANGED <<oscillator, audioContext>>

\* lines 111-117: stop() when running
stop ==
    /\ isRunning
    /\ oscillator' = IF oscillator.node
                     THEN [oscillator EXCEPT !.state = "stopped"]
                     ELSE oscillator
    /\ audioContext' = IF audioContext = "null" THEN "null" ELSE "closed"
    /\ isRunning' = FALSE

\* lines 189-194: setPitch(f0) on the oscillator as it is when called
setPitch(run, osc, ctx, f0) ==
    IF run /\ osc.node /\ ctx # "null"
    THEN [osc EXCEPT !.frequency = f0]
    ELSE osc

\* lines 212-218: setVolume(vol) on the master gain as it is when called
setVolume(run, gain, ctx, vol) ==
    IF run /\ gain.node /\ ctx # "null"
    THEN [gain EXCEPT !.gain = vol]
    ELSE gain

\* a setVowelPosition that also resets the gender factor
setVowelPositionResetting(x, y) ==
    /\ vowelX' = x
    /\ vowelY' = y
    /\ genderFactor' = 0
    /\ filters' = updateVowel(isRunning, audioContext, filters, x, y,
                              0, qualityFactor)
    /\ VOWELS' = CatalogAfterUpdate(isRunning, audioContext, x, y)
    /\ UNCHANGED <<qualityFactor, volume, isRunning,
                   audioContext, oscillator, masterGain>>

\* lines 196-200
setVowelPosition(x, y) ==
    /\ vowelX' = x
    /\ vowelY' = y
    /\ filters' = updateVowel(isRunning, audioContext, filters, x, y,
                              genderFactor, qualityFactor)
    /\ VOWELS' = CatalogAfterUpdate(isRunning, audioContext, x, y)
    /\ UNCHANGED <<genderFactor, qualityFactor, volume, isRunning,
                   audioContext, oscillator, masterGain>>

\* an id no pending request has and the ref does not hold: the browser
\* hands out a new id with every request
FreshId(requests, ref) ==
    CHOOSE id \in 1..(Cardinality(requests) + 2) :
        id \notin requests /\ id # ref

\* lines 361-412: drawWaveform() with the waveform canvas in place; it
\* ends with a new request for itself unless it returns at line 365
drawWaveform(hasAnalyser, run, ref, requests, canvas) ==
    IF ~hasAnalyser \/ ~run
    THEN [animationFrameRef |-> ref, frameRequests |-> requests,
          waveformCanvas |-> canvas]
    ELSE [animationFrameRef |-> FreshId(requests, ref),
          frameRequests |-> requests \cup {FreshId(requests, ref)},
          waveformCanvas |-> "waveform"]

\* lines 414-419: the request the ref holds is cancelled, the ref keeps
\* its value until drawWaveform() assigns it
startWaveformAnimation(hasAnalyser, run) ==
    drawWaveform(hasAnalyser, run, animationFrameRef,
                 frameRequests \ {animationFrameRef}, waveformCanvas)

\* a stopWaveformAnimation that forgets the request without cancelling it
stopWaveformAnimationNoCancel(ref, requests) ==
    [animationFrameRef |-> 0, frameRequests |-> requests,
     waveformCanvas |-> "instruction"]

\* lines 421-443 with the waveform canvas in place
stopWaveformAnimation(ref, requests) ==
    [animationFrameRef |-> 0, frameRequests |-> requests \ {ref},
     waveformCanvas |-> "instruction"]

\* the widget's animation state becomes what a was computed to be
Animate(a) ==
    /\ animationFrameRef' = a.animationFrameRef
    /\ frameRequests' = a.frameRequests
    /\ waveformCanvas' = a.waveformCanvas

\* a catch block that swallows the error
ThrewNothing(started) == FALSE

\* lines 104-108: the catch block rethrows, so the caller's try block ends
\* at its call of start() exactly when start() did not reach line 101
Threw(started) == ~started.isRunning

\* lines 259-269: toggleAudio when the core is not running; start() is
\* followed by setVolume(volume / 2) unless it threw
toggleOn(started) ==
    /\ orphans' = started.orphans
    /\ audioContext' = started.audioContext
    /\ oscillator' = started.oscillator
    /\ filters' = started.filters
    /\ isRunning' = started.isRunning
    /\ VOWELS' = started.VOWELS
    /\ IF ~Threw(started)
       THEN /\ volume' = uiVolume
            /\ masterGain' = setVolume(started.isRunning, started.masterGain,
                                       started.audioContext, uiVolume)
            /\ uiIsRunning' = TRUE
            /\ Animate(startWaveformAnimation(started.masterGain.node,
                                               started.isRunning))
       ELSE /\ masterGain' = started.masterGain
            /\ UNCHANGED <<volume, uiIsRunning, animationFrameRef,
                           frameRequests, waveformCanvas>>

\* lines 256-275
toggleAudio(throwAt) ==
    /\ IF ~isRunning
       THEN toggleOn(start(throwAt))
       ELSE /\ throwAt = "none"
            /\ stop
            /\ uiIsRunning' = FALSE
            /\ Animate(stopWaveformAnimation(animationFrameRef,
                                             frameRequests))
            /\ UNCHANGED <<VOWELS, volume, filters, masterGain, orphans>>
    /\ UNCHANGED <<control, gender, quality, pitch, uiVolume, isDragging>>
    /\ UNCHANGED <<call, ret, mounted, sawtooth>>

\* a clamp from above only
ClampAbove(v) == Min(100, v)

\* lines 329-330: Math.max(0, Math.min(100, v))
Clamp(v) == Max(0, Min(100, v))

\* lines 317-336: the pointer at canvas pixel (cx, cy)
updateVowelPosition(cx, cy) ==
    setVowelPosition(Clamp((cx * 100) \div CanvasWidth),
                     Clamp(((CanvasHeight - cy) * 100) \div CanvasHeight))

\* lines 338-340
handleCanvasClick(cx, cy) ==
    /\ updateVowelPosition(cx, cy)
    /\ UNCHANGED <<widget, call, ret>>
    /\ UNCHANGED <<orphans, animation, sawtooth>>

\* lines 342-345
handleCanvasMouseDown(cx, cy) ==
    /\ isDragging' = TRUE
    /\ updateVowelPosition(cx, cy)
    /\ UNCHANGED <<uiIsRunning, gender, quality, pitch, uiVolume, call, ret>>
    /\ UNCHANGED <<orphans, animation, sawtooth>>

\* lines 347-351
handleCanvasMouseMove(cx, cy) ==
    /\ isDragging
    /\ updateVowelPosition(cx, cy)
    /\ UNCHANGED <<widget, call, ret>>
    /\ UNCHANGED <<orphans, animation, sawtooth>>

\* lines 353-355
handleCanvasMouseUp ==
    /\ isDragging' = FALSE
    /\ UNCHANGED <<VOWELS, control, audio, uiIsRunning, gender, quality,
                   pitch, uiVolume, call, ret>>
    /\ UNCHANGED <<orphans, animation, sawtooth>>

\* lines 357-359
handleCanvasMouseLeave ==
    /\ isDragging' = FALSE
    /\ UNCHANGED <<VOWELS, control, audio, uiIsRunning, gender, quality,
                   pitch, uiVolume, call, ret>>
    /\ UNCHANGED <<orphans, animation, sawtooth>>

\* lines 455-458 and 202-205: value / 100 is the gender factor
handleGenderChange(value) ==
    /\ gender' = value
    /\ genderFactor' = value
    /\ filters' = updateVowel(isRunning, audioContext, filters, vowelX,
                              vowelY, value, qualityFactor)
    /\ VOWELS' = CatalogAfterUpdate(isRunning, audioContext, vowelX, vowelY)
    /\ UNCHANGED <<vowelX, vowelY, qualityFactor, volume, isRunning,
                   audioContext, oscillator, masterGain>>
    /\ UNCHANGED <<uiIsRunning, quality, pitch, uiVolume, isDragging,
                   call, ret>>
    /\ UNCHANGED <<orphans, animation, sawtooth>>

\* lines 460-464 and 207-210: (value - 50) / 50 is the quality factor
handleQualityChange(value) ==
    /\ quality' = value
    /\ qualityFactor' = value - 50
    /\ filters' = updateVowel(isRunning, audioContext, filters, vowelX,
                              vowelY, genderFactor, value - 50)
    /\ VOWELS' = CatalogAfterUpdate(isRunning, audioContext, vowelX, vowelY)
    /\ UNCHANGED <<vowelX, vowelY, genderFactor, volume, isRunning,
                   audioContext, oscillator, masterGain>>
    /\ UNCHANGED <<uiIsRunning, gender, pitch, uiVolume, isDragging,
                   call, ret>>
    /\ UNCHANGED <<orphans, animation, sawtooth>>

\* lines 466-469
handlePitchChange(value) ==
    /\ pitch' = value
    /\ oscillator' = setPitch(isRunning, oscillator, audioContext, value)
    /\ UNCHANGED <<VOWELS, control, volume, isRunning, audioContext, filters,
                   masterGain>>
    /\ UNCHANGED <<uiIsRunning, gender, quality, uiVolume, isDragging,
                   call, ret>>
    /\ UNCHANGED <<orphans, animation, sawtooth>>

\* lines 471-474: value / 2 is the volume
handleVolumeChange(value) ==
    /\ uiVolume' = value
    /\ volume' = value
    /\ masterGain' = setVolume(isRunning, masterGain, audioContext, value)
    /\ UNCHANGED <<VOWELS, control, isRunning, audioContext, oscillator,
                   filters>>
    /\ UNCHANGED <<uiIsRunning, gender, quality, pitch, isDragging,
                   call, ret>>
    /\ UNCHANGED <<orphans, animation, sawtooth>>

\* pointer places, in canvas pixels: on anchor "beet" and outside the
\* canvas
Pointers == {<<540, 40>>, <<-120, -80>>}

\* values of the gender slider (lines 522-523: 0..200)
GenderValues == {0, 150}

\* values of the quality slider (lines 537-538: 0..100)
QualityValues == {0, 50}

\* values of the pitch slider (lines 552-553: 50..300)
PitchValues == {120, 300}

\* values of the volume slider (lines 567-568: 0..100)
VolumeValues == {0, 50}

\* lines 50-54 and 222-234: the core and the widget after construction
Init ==
    /\ VOWELS = VowelTable
    /\ vowelX = 50
    /\ vowelY = 50
    /\ genderFactor = 0
    /\ qualityFactor = 0
    /\ AudioInit
    /\ OnPage("vowel")
    /\ call = "none"
    /\ ret = NoCall

Next ==
    \/ \E t \in ThrowPoints : toggleAudio(t)
    \/ \E p \in Pointers : handleCanvasClick(p[1], p[2])
    \/ \E p \in Pointers : handleCanvasMouseDown(p[1], p[2])
    \/ \E p \in Pointers : handleCanvasMouseMove(p[1], p[2])
    \/ handleCanvasMouseUp
    \/ handleCanvasMouseLeave
    \/ \E v \in GenderValues : handleGenderChange(v)
    \/ \E v \in QualityValues : handleQualityChange(v)
    \/ \E v \in PitchValues : handlePitchChange(v)
    \/ \E v \in VolumeValues : handleVolumeChange(v)

Spec == Init /\ [][Next]_vars

----------------------------------------------------------------------------
(* The widget with an observer that once, while the synthesizer runs,
   notes the control state and the targets the filters were given *)

Observe ==
    /\ isRunning
    /\ call = "none"
    /\ call' = "observed"
    /\ ret' = [fn |-> "observed", control |-> control, filters |-> filters]
    /\ UNCHANGED <<VOWELS, control, audio, widget>>
    /\ UNCHANGED <<orphans, animation, sawtooth>>

NextObserved == Next \/ Observe

SpecObserved == Init /\ [][NextObserved]_vars

----------------------------------------------------------------------------
(* The vowel widget's waveform loop and its unmount *)

\* lines 81-86: the analyser is made right after the master gain, so the
\* core has one exactly when it has a master gain
analyser == masterGain.node

\* the browser runs the callback of the pending request id: drawWaveform
\* (lines 361-412); without the canvas (after unmount) it returns at once
animationFrame(id) ==
    /\ id \in frameRequests
    /\ IF mounted
       THEN Animate(drawWaveform(analyser, isRunning, animationFrameRef,
                                 frameRequests \ {id}, waveformCanvas))
       ELSE /\ frameRequests' = frameRequests \ {id}
            /\ UNCHANGED <<animationFrameRef, waveformCanvas>>
    /\ UNCHANGED <<VOWELS, control, audio, widget, call, ret, orphans,
                   mounted, sawtooth>>

\* lines 236-245: the cleanup of the mount effect; the canvas is gone
unmount ==
    /\ mounted
    /\ mounted' = FALSE
    /\ IF isRunning
       THEN stop
       ELSE UNCHANGED <<oscillator, audioContext, isRunning>>
    /\ animationFrameRef' = 0
    /\ frameRequests' = frameRequests \ {animationFrameRef}
    /\ waveformCanvas' = "unmounted"
    /\ UNCHANGED <<VOWELS, control, volume, filters, masterGain, widget,
                   call, ret, orphans, sawtooth>>

\* the vowel widget: its events while it is mounted, its frame callbacks
\* and its unmount
NextVowel ==
    \/ mounted /\ \E t \in ThrowPoints : toggleAudio(t)
    \/ mounted /\ \E p \in Pointers : handleCanvasClick(p[1], p[2])
    \/ mounted /\ \E p \in Pointers : handleCanvasMouseDown(p[1], p[2])
    \/ mounted /\ \E p \in Pointers : handleCanvasMouseMove(p[1], p[2])
    \/ mounted /\ handleCanvasMouseUp
    \/ mounted /\ handleCanvasMouseLeave
    \/ mounted /\ \E v \in GenderValues : handleGenderChange(v)
    \/ mounted /\ \E v \in QualityValues : handleQualityChange(v)
    \/ mounted /\ \E v \in PitchValues : handlePitchChange(v)
    \/ mounted /\ \E v \in VolumeValues : handleVolumeChange(v)
    \/ \E id \in frameRequests : animationFrame(id)
    \/ unmount

----------------------------------------------------------------------------
(* SawtoothGeneratorCore and the SawtoothGenerator widget
   (src/components/SawtoothGenerator.tsx) *)

\* where the sawtooth core's start() may throw: nowhere, at line 19 (no
\* context is made), at line 27 (the master gain cannot be made), at
\* line 39 (the oscillator cannot be started); line 40 ends the try block
SawtoothThrowPoints == {"none", "context", "masterGain", "oscillatorStart"}

\* lines 22-24: the oscillator as start() creates it
SawtoothOscillator(c, state) ==
    [node |-> TRUE, frequency |-> c.pitch, state |-> state]

\* a start() that sets the flag whatever happens
SawtoothStartMarked(c, throwAt) ==
    [c EXCEPT !.audioContext = "running",
              !.oscillator = SawtoothOscillator(c, "started"),
              !.isRunning = TRUE]

\* lines 15-46: the core after start()
SawtoothStart(c, throwAt) ==
    IF c.isRunning THEN c
    ELSE CASE throwAt = "context" -> [c EXCEPT !.isRunning = FALSE]
           [] throwAt = "masterGain" ->
                [c EXCEPT !.audioContext = "running",
                          !.oscillator = SawtoothOscillator(c, "created"),
                          !.orphans = Orphaned(c.audioContext, c.oscillator, @),
                          !.isRunning = FALSE]
           [] throwAt = "oscillatorStart" ->
                [c EXCEPT !.audioContext = "running",
                          !.oscillator = SawtoothOscillator(c, "created"),
                          !.masterGain = [node |-> TRUE, gain |-> c.volume],
                          !.orphans = Orphaned(c.audioContext, c.oscillator, @),
                          !.isRunning = FALSE]
           [] throwAt = "none" ->
                [c EXCEPT !.audioContext = "running",
                          !.oscillator = SawtoothOscillator(c, "started"),
                          !.masterGain = [node |-> TRUE, gain |-> c.volume],
                          !.orphans = Orphaned(c.audioContext, c.oscillator, @),
                          !.isRunning = TRUE]

\* lines 48-54: the core after stop()
SawtoothStop(c) ==
    IF ~c.isRunning THEN c
    ELSE [c EXCEPT !.oscillator = IF @.node
                                  THEN [@ EXCEPT !.state = "stopped"]
                                  ELSE @,
                   !.audioContext = IF @ = "null" THEN "null" ELSE "closed",
                   !.isRunning = FALSE]

\* lines 56-62: the core after setPitch(f0)
SawtoothSetPitch(c, f0) ==
    [c EXCEPT !.pitch = f0,
              !.oscillator =
                  IF c.isRunning /\ @.node /\ c.audioContext # "null"
                  THEN [@ EXCEPT !.frequency = f0]
                  ELSE @]

\* lines 64-70: the core after setVolume(vol)
SawtoothSetVolume(c, vol) ==
    [c EXCEPT !.volume = vol,
              !.masterGain =
                  IF c.isRunning /\ @.node /\ c.audioContext # "null"
                  THEN [@ EXCEPT !.gain = vol]
                  ELSE @]

\* lines 121-172: drawWaveform() of widget w with its canvas in place, the
\* core being c
SawtoothDrawWaveform(w, c) ==
    IF ~c.masterGain.node \/ ~c.isRunning
    THEN w
    ELSE [w EXCEPT
            !.animationFrameRef = FreshId(w.frameRequests, w.animationFrameRef),
            !.frameRequests =
                @ \cup {FreshId(w.frameRequests, w.animationFrameRef)},
            !.waveformCanvas = "waveform"]

\* lines 174-179
SawtoothStartWaveformAnimation(w, c) ==
    SawtoothDrawWaveform(
        [w EXCEPT !.frameRequests = @ \ {w.animationFrameRef}], c)

\* lines 181-203 with the canvas in place
SawtoothStopWaveformAnimation(w) ==
    [w EXCEPT !.animationFrameRef = 0,
              !.frameRequests = @ \ {w.animationFrameRef},
              !.waveformCanvas = "instruction"]

\* everything but the sawtooth core and widget
vowelVars ==
    <<VOWELS, control, audio, widget, call, ret, orphans, animation>>

\* lines 98-119: after a start() that did not throw the widget hands over
\* its pitch and volume, shows "running" and starts the waveform loop
SawtoothToggleAudio(throwAt) ==
    /\ IF ~sawCore.isRunning
       THEN IF throwAt = "none"
            THEN /\ sawCore' =
                        SawtoothSetVolume(
                            SawtoothSetPitch(SawtoothStart(sawCore, "none"),
                                             sawWidget.pitch),
                            sawWidget.volume)
                 /\ sawWidget' =
                        SawtoothStartWaveformAnimation(
                            [sawWidget EXCEPT !.isRunning = TRUE], sawCore')
            ELSE /\ sawCore' = SawtoothStart(sawCore, throwAt)
                 /\ sawWidget' = sawWidget
       ELSE /\ throwAt = "none"
            /\ sawCore' = SawtoothStop(sawCore)
            /\ sawWidget' =
                   SawtoothStopWaveformAnimation(
                       [sawWidget EXCEPT !.isRunning = FALSE])
    /\ UNCHANGED vowelVars

\* lines 205-208
SawtoothHandlePitchChange(value) ==
    /\ sawWidget' = [sawWidget EXCEPT !.pitch = value]
    /\ sawCore' = SawtoothSetPitch(sawCore, value)
    /\ UNCHANGED vowelVars

\* lines 210-213: value / 100 is the volume
SawtoothHandleVolumeChange(value) ==
    /\ sawWidget' = [sawWidget EXCEPT !.volume = value]
    /\ sawCore' = SawtoothSetVolume(sawCore, value)
    /\ UNCHANGED vowelVars

\* the browser runs the callback of the pending request id: drawWaveform
\* (lines 121-172); without the canvas (after unmount) it returns at once
SawtoothAnimationFrame(id) ==
    /\ id \in sawWidget.frameRequests
    /\ sawWidget' =
           IF sawWidget.mounted
           THEN SawtoothDrawWaveform(
                    [sawWidget EXCEPT !.frameRequests = @ \ {id}], sawCore)
           ELSE [sawWidget EXCEPT !.frameRequests = @ \ {id}]
    /\ UNCHANGED <<sawCore, vowelVars>>

\* lines 82-91: the cleanup of the mount effect; the canvas is gone
SawtoothUnmount ==
    /\ sawWidget.mounted
    /\ sawCore' = SawtoothStop(sawCore)
    /\ sawWidget' = [sawWidget EXCEPT
                         !.mounted = FALSE,
                         !.animationFrameRef = 0,
                         !.frameRequests = @ \ {sawWidget.animationFrameRef},
                         !.waveformCanvas = "unmounted"]
    /\ UNCHANGED vowelVars

\* values of the sawtooth widget's pitch slider (lines 236-237: 50..300)
SawtoothPitchValues == {50, 120, 300}

\* values of the sawtooth widget's volume slider (lines 251-252: 0..100)
SawtoothVolumeValues == {0, 50, 100}

\* the sawtooth widget: its events while it is mounted, its frame
\* callbacks and its unmount
NextSawtooth ==
    \/ /\ sawWidget.mounted
       /\ \E t \in SawtoothThrowPoints : SawtoothToggleAudio(t)
    \/ /\ sawWidget.mounted
       /\ \E v \in SawtoothPitchValues : SawtoothHandlePitchChange(v)
    \/ /\ sawWidget.mounted
       /\ \E v \in SawtoothVolumeValues : SawtoothHandleVolumeChange(v)
    \/ \E id \in sawWidget.frameRequests : SawtoothAnimationFrame(id)
    \/ SawtoothUnmount

----------------------------------------------------------------------------
(* A page with one of the two widgets *)

InitWidgets ==
    /\ VOWELS = VowelTable
    /\ vowelX = 50
    /\ vowelY = 50
    /\ genderFactor = 0
    /\ qualityFactor = 0
    /\ AudioInit
    /\ \E w \in Pages : OnPage(w)
    /\ call = "none"
    /\ ret = NoCall

NextWidgets == NextVowel \/ NextSawtooth

SpecWidgets == InitWidgets /\ [][NextWidgets]_vars

----------------------------------------------------------------------------
(* Direct calls of start() and stop() on the two cores, in any order *)

\* lines 56-109: start(), which returns at once when running
CallStart(throwAt) ==
    /\ IF isRunning
       THEN UNCHANGED <<VOWELS, audioContext, oscillator, filters,
                        masterGain, isRunning, orphans>>
       ELSE /\ VOWELS' = start(throwAt).VOWELS
            /\ audioContext' = start(throwAt).audioContext
            /\ oscillator' = start(throwAt).oscillator
            /\ filters' = start(throwAt).filters
            /\ masterGain' = start(throwAt).masterGain
            /\ isRunning' = start(throwAt).isRunning
            /\ orphans' = start(throwAt).orphans
    /\ UNCHANGED <<control, volume, widget, call, ret, animation, sawtooth>>

\* lines 111-117: stop(), which returns at once when not running
CallStop ==
    /\ IF isRunning
       THEN stop
       ELSE UNCHANGED <<oscillator, audioContext, isRunning>>
    /\ UNCHANGED <<VOWELS, control, volume, filters, masterGain, widget,
                   call, ret, orphans, animation, sawtooth>>

\* SawtoothGenerator.tsx lines 15-46
CallSawtoothStart(throwAt) ==
    /\ sawCore' = SawtoothStart(sawCore, throwAt)
    /\ UNCHANGED <<sawWidget, vowelVars>>

\* SawtoothGenerator.tsx lines 48-54
CallSawtoothStop ==
    /\ sawCore' = SawtoothStop(sawCore)
    /\ UNCHANGED <<sawWidget, vowelVars>>

\* SawtoothGenerator.tsx lines 56-62
CallSawtoothSetPitch(f0) ==
    /\ sawCore' = SawtoothSetPitch(sawCore, f0)
    /\ UNCHANGED <<sawWidget, vowelVars>>

NextCores ==
    \/ \E t \in ThrowPoints : CallStart(t)
    \/ CallStop
    \/ \E t \in SawtoothThrowPoints : CallSawtoothStart(t)
    \/ CallSawtoothStop
    \/ \E f0 \in SawtoothPitchValues : CallSawtoothSetPitch(f0)

SpecCores == Init /\ [][NextCores]_vars

----------------------------------------------------------------------------
(* Properties of interpolateFormants, under SpecInterpolate *)

Interpolated == call = "interpolateFormants"

\* squared distance of catalog anchor k from the queried position
AnchorDist2(k) ==
    (VOWELS[k].pos[1] - vowelX) * (VOWELS[k].pos[1] - vowelX)
    + (VOWELS[k].pos[2] - vowelY) * (VOWELS[k].pos[2] - vowelY)

\* catalog index of a selected entry
CatalogIndex(e) == CHOOSE k \in 1..Len(VOWELS) : VOWELS[k].name = e.name

SelectedIndexes == {CatalogIndex(ret.locals.nearest[j]) : j \in 1..3}

\* C1: at every position of [0,1] x [0,1] interpolateFormants returns
\* exactly 3 frequencies, each a finite, strictly positive number.
C1_ThreePositiveFrequencies ==
    Interpolated =>
        /\ Len(ret.formants) = 3
        /\ \A i \in 1..3 : ret.formants[i] > 0 /\ ret.formants[i] < NotFinite

C1_Witness ==
    /\ Interpolated
    /\ vowelX = PosUnits /\ vowelY = 0
    /\ ret.formants[1] > 0

\* C2: the blended anchors are exactly 3 of the 11 catalog anchors; no
\* unselected anchor is strictly closer to the position than a selected
\* one, and no unselected anchor at equal distance precedes a selected one
\* in catalog order.
C2_NearestThreeStable ==
    Interpolated =>
        /\ Len(VOWELS) = 11
        /\ Len(ret.locals.nearest) = 3
        /\ \A j \in 1..3 : \E k \in 1..Len(VOWELS) :
               /\ ret.locals.nearest[j].data = VOWELS[k]
               /\ ret.locals.nearest[j].dist2 = AnchorDist2(k)
        /\ Cardinality(SelectedIndexes) = 3
        /\ \A u \in (1..Len(VOWELS)) \ SelectedIndexes :
           \A k \in SelectedIndexes :
               /\ AnchorDist2(u) >= AnchorDist2(k)
               /\ AnchorDist2(u) = AnchorDist2(k) => k < u

\* a position where an unselected anchor is exactly as far as a selected one
C2_Witness ==
    /\ Interpolated
    /\ \E u \in (1..Len(VOWELS)) \ SelectedIndexes :
       \E k \in SelectedIndexes : AnchorDist2(u) = AnchorDist2(k)

\* C3: each selected anchor weighs 1/(distance + 0.01); the 3 normalized
\* weights lie strictly between 0 and 1 and sum to 1; each output band
\* lies between the least and the greatest value of the 3 selected anchors
\* for that band; nothing is divided by zero, also at an anchor's position.
C3_ConvexBlend ==
    Interpolated =>
        LET n == ret.locals.nearest
            w == ret.locals.weights
            nw == ret.locals.normalizedWeights
            off == DistUnits \div 100
        IN  /\ \A j \in 1..3 : w[j] > 0 /\ w[j] < NotFinite
            /\ \A j, k \in 1..3 :
                   w[j] * (n[j].dist + off) = w[k] * (n[k].dist + off)
            /\ \A j \in 1..3 :
                   /\ nw[j][2] = nw[1][2]
                   /\ 0 < nw[j][1] /\ nw[j][1] < nw[j][2]
                   /\ nw[j][1] * (n[j].dist + off)
                        = nw[1][1] * (n[1].dist + off)
            /\ nw[1][1] + nw[2][1] + nw[3][1] = nw[1][2]
            /\ \A i \in 1..3 :
                   /\ \E j \in 1..3 :
                          n[j].data.formants[i] * FracHz <= ret.formants[i]
                   /\ \E j \in 1..3 :
                          ret.formants[i] <= n[j].data.formants[i] * FracHz

\* the position of anchor "about", where the nearest distance is 0
C3_Witness ==
    /\ Interpolated
    /\ vowelX = 50 /\ vowelY = 50
    /\ ret.locals.nearest[1].dist = 0
    /\ ret.locals.normalizedWeights[1][1] > 0

AtAnchor(k) == VOWELS[k].pos = <<vowelX, vowelY>>

\* C4: at the exact position of a catalog anchor, that anchor is among the
\* 3 selected and its normalized weight is strictly greater than the
\* weight of each of the other 2.
C4_AnchorDominates ==
    Interpolated =>
        \A k \in 1..Len(VOWELS) : AtAnchor(k) =>
            \E j \in 1..3 :
                /\ ret.locals.nearest[j].data = VOWELS[k]
                /\ \A o \in (1..3) \ {j} :
                       /\ ret.locals.normalizedWeights[o][2]
                            = ret.locals.normalizedWeights[j][2]
                       /\ ret.locals.normalizedWeights[o][1]
                            < ret.locals.normalizedWeights[j][1]

\* the position of the last catalog anchor, "book"
C4_Witness ==
    /\ Interpolated
    /\ AtAnchor(Len(VOWELS))
    /\ ret.locals.nearest[1].name = "U"

----------------------------------------------------------------------------
(* Properties of the pipeline's functions, under SpecCalls *)

\* C5: scaleFormantsForGender multiplies every formant by one scalar:
\* 1.0 + 0.18*g for g <= 1 (also for g < 0), 1.18 + 0.25*(g - 1) for g > 1;
\* the result is the input at g = 0 and the scalar is 1.18 at g = 1.
C5_GenderScale ==
    call = "scaleFormantsForGender" =>
        LET g == genderFactor
            k == IF g <= 100 THEN 10000 + 18 * g ELSE 11800 + 25 * (g - 100)
        IN  /\ \A i \in 1..3 : ret.formants[i] = MulDiv(ret.arg[i], k, 10000)
            /\ g = 0 => ret.formants = ret.arg
            /\ g = 100 =>
                   \A i \in 1..3 : ret.formants[i] = MulDiv(ret.arg[i], 118, 100)

\* a scaling above the breakpoint g = 1
C5_Witness ==
    /\ call = "scaleFormantsForGender"
    /\ genderFactor = 200
    /\ \A i \in 1..3 : ret.formants[i] > ret.arg[i]

\* C6: calculateBandwidth(freq, q) is freq*0.08*m with m = 1.0 + 0.5*q for
\* q >= 0 and m = 1.0 + 0.3*q for q < 0: freq*0.08 at q = 0, m = 1.5 at
\* q = 1 and m = 0.7 at q = -1, and for q in [-1,1] and freq > 0 the
\* bandwidth is strictly positive with a multiplier of at least 0.7.
C6_Bandwidth ==
    call = "calculateBandwidth" =>
        LET q == qualityFactor
            mN == IF q >= 0 THEN 100 + q ELSE 500 + 3 * q
            mD == IF q >= 0 THEN 100 ELSE 500
            base(i) == MulDiv(ret.arg[i], 8, 100)
        IN  \A i \in 1..3 :
                /\ ret.bw[i] = MulDiv(base(i), mN, mD)
                /\ q = 0 => ret.bw[i] = base(i)
                /\ q = 50 => ret.bw[i] = MulDiv(base(i), 15, 10)
                /\ q = -50 => ret.bw[i] = MulDiv(base(i), 7, 10)
                /\ (q \in -50..50 /\ ret.arg[i] > 0) =>
                       /\ ret.bw[i] > 0
                       /\ ret.bw[i] >= MulDiv(base(i), 7, 10)

\* the bandwidth of the tensest voice
C6_Witness ==
    /\ call = "calculateBandwidth"
    /\ qualityFactor = -50
    /\ \A i \in 1..3 : ret.bw[i] > 0 /\ ret.bw[i] < MulDiv(ret.arg[i], 8, 100)

InDomain ==
    /\ vowelX \in 0..PosUnits /\ vowelY \in 0..PosUnits
    /\ genderFactor \in 0..200
    /\ qualityFactor \in -50..50

\* C7: for x, y in [0,1], g in [0,2] and q in [-1,1] the pipeline yields 3
\* (frequency, Q) pairs, all finite and strictly positive.
C7_FinitePositive ==
    (call = "recompute" /\ InDomain) =>
        /\ Len(ret.targets) = 3
        /\ \A i \in 1..3 :
               /\ ret.targets[i].frequency > 0
               /\ ret.targets[i].frequency < NotFinite
               /\ ret.targets[i].Q > 0
               /\ ret.targets[i].Q < NotFinite

\* the pipeline run on the defaults x = y = 0.5, g = 0, q = 0
C7_Witness ==
    /\ call = "recompute"
    /\ vowelX = 50 /\ vowelY = 50 /\ genderFactor = 0 /\ qualityFactor = 0
    /\ ret.targets[1].Q > 0

AtBeet ==
    /\ call = "recompute"
    /\ vowelX = 90 /\ vowelY = 90 /\ genderFactor = 0 /\ qualityFactor = 0

\* f is within pct percent of ref Hz
WithinPercent(f, ref, pct) ==
    /\ (f - ref * FracHz) * 100 <= pct * ref * FracHz
    /\ (ref * FracHz - f) * 100 <= pct * ref * FracHz

\* C8 as stated: at position (0.9, 0.9), gender 0 and quality 0 each of
\* the 3 frequencies is within 5% of 270, 2290, 3010.
C8_WithinFivePercent ==
    AtBeet =>
        /\ WithinPercent(ret.targets[1].frequency, 270, 5)
        /\ WithinPercent(ret.targets[2].frequency, 2290, 5)
        /\ WithinPercent(ret.targets[3].frequency, 3010, 5)

\* C8, amended: at position (0.9, 0.9), gender 0 and quality 0 the second
\* and third frequencies are within 5% of 2290 and 3010; the first is
\* above 270 by more than 5% and by less than 6%.
C8_FirstWithinSixPercent ==
    AtBeet =>
        /\ WithinPercent(ret.targets[1].frequency, 270, 6)
        /\ ~WithinPercent(ret.targets[1].frequency, 270, 5)
        /\ ret.targets[1].frequency > 270 * FracHz
        /\ WithinPercent(ret.targets[2].frequency, 2290, 5)
        /\ WithinPercent(ret.targets[3].frequency, 3010, 5)

C8_Witness ==
    /\ AtBeet
    /\ ret.targets[1].frequency > 283 * FracHz
    /\ ret.targets[1].frequency < 284 * FracHz

----------------------------------------------------------------------------
(* Properties of the running synthesizer *)

\* the filters' targets are those noted when the control state was the same
SameAsObserved ==
    (isRunning /\ call = "observed" /\ ret.control = control) =>
        filters = ret.filters

\* what a step keeps: the catalog; the control state when the step is a
\* start; the filters' targets when it leaves the control state as it was
\* and the synthesizer running
RecomputeKeeps ==
    /\ VOWELS' = VOWELS
    /\ (~isRunning /\ isRunning') => control' = control
    /\ (isRunning /\ isRunning' /\ control' = control) => filters' = filters

\* C9: recomputing with an unchanged control state yields identical
\* outputs: whenever the synthesizer runs with the control state
\* (x, y, g, q) it had at an earlier observation, the 3 (frequency, Q)
\* pairs are those observed, whatever recomputes, control events and
\* start/stop cycles came between; and a recompute changes neither the
\* control state nor the anchor catalog.
C9_RecomputeIdempotent == []SameAsObserved /\ [][RecomputeKeeps]_vars

\* running at the observed control state, away from the defaults, with the
\* pitch slider moved, the oscillator at its start frequency and the
\* volume turned to 0
C9_Witness ==
    /\ isRunning
    /\ call = "observed"
    /\ ret.control = control
    /\ vowelX = 90 /\ genderFactor = 150 /\ qualityFactor = -50
    /\ filters = ret.filters
    /\ pitch = 300 /\ oscillator.frequency = StartFrequency
    /\ masterGain.gain = 0

\* C10: whenever the synthesizer is running, the oscillator's frequency
\* target is the most recently set pitch (120 Hz if none was set) and the
\* master gain is the most recently set volume, also when the value was
\* changed while the synthesizer was stopped.
C10_PitchAndVolumeHandedOver ==
    isRunning =>
        /\ oscillator.frequency = pitch
        /\ masterGain.gain = uiVolume

\* C11: the most recent state wins: whenever the vowel synthesizer is
\* running, the 3 filters' frequency and Q targets are the pipeline's
\* output for the current (x, y, g, q), values set while it was stopped
\* included (start applies them).
C11_LatestStateWins ==
    isRunning =>
        /\ Len(filters) = 3
        /\ filters = FilterTargets(vowelX, vowelY, genderFactor, qualityFactor)

\* running away from the defaults, the filters no longer as created
C11_Witness ==
    /\ isRunning
    /\ vowelX = 90 /\ vowelY = 90
    /\ genderFactor = 150 /\ qualityFactor = -50
    /\ filters[1].Q # StartQ * FracHz
    /\ filters[1].frequency # DefaultFilterFrequency * FracHz

\* steps of the widget by the core setter they call
PitchStep == \E v \in PitchValues : handlePitchChange(v)

VolumeStep == \E v \in VolumeValues : handleVolumeChange(v)

PositionStep ==
    \E p \in Pointers :
        \/ handleCanvasClick(p[1], p[2])
        \/ handleCanvasMouseDown(p[1], p[2])
        \/ handleCanvasMouseMove(p[1], p[2])

GenderStep == \E v \in GenderValues : handleGenderChange(v)

QualityStep == \E v \in QualityValues : handleQualityChange(v)

\* what a setter's step leaves alone
SettersFrame ==
    /\ (PitchStep \/ VolumeStep) =>
           /\ control' = control
           /\ filters' = filters
           /\ isRunning' = isRunning
    /\ PitchStep => masterGain' = masterGain
    /\ VolumeStep => oscillator' = oscillator
    /\ (PositionStep \/ GenderStep \/ QualityStep) =>
           /\ oscillator' = oscillator
           /\ masterGain' = masterGain
           /\ isRunning' = isRunning
    /\ PositionStep =>
           /\ genderFactor' = genderFactor
           /\ qualityFactor' = qualityFactor
    /\ GenderStep =>
           /\ vowelX' = vowelX /\ vowelY' = vowelY
           /\ qualityFactor' = qualityFactor
    /\ QualityStep =>
           /\ vowelX' = vowelX /\ vowelY' = vowelY
           /\ genderFactor' = genderFactor

\* C12: setPitch and setVolume leave x, y, g, q and the filters' targets
\* unchanged; setVowelPosition, setGender and setQuality leave the
\* oscillator frequency and the master gain unchanged, and each leaves
\* the other two of position, gender and quality unchanged; none of the
\* five setters changes isRunning.
C12_SettersKeepTheRest == [][SettersFrame]_vars

\* running with every setter used: position, gender, quality, pitch and
\* volume all away from their defaults and applied
C12_Witness ==
    /\ isRunning
    /\ vowelX = 0 /\ vowelY = 100
    /\ genderFactor = 150 /\ qualityFactor = -50
    /\ oscillator.frequency = 300
    /\ masterGain.gain = 0
    /\ filters = FilterTargets(0, 100, 150, -50)

----------------------------------------------------------------------------
(* The chart and the gender and quality sliders over their whole ranges *)

\* pointer places, in canvas pixels: inside the chart and beyond each of
\* its edges
FarPointers == {<<540, 40>>, <<300, 200>>, <<-120, -80>>, <<900, 700>>}

\* lines 522-523: the gender slider's least, middle and greatest value
GenderRange == {0, 100, 200}

\* lines 537-538: the quality slider's least, middle and greatest value
QualityRange == {0, 50, 100}

NextControls ==
    \/ \E t \in ThrowPoints : toggleAudio(t)
    \/ \E p \in FarPointers : handleCanvasClick(p[1], p[2])
    \/ \E p \in FarPointers : handleCanvasMouseDown(p[1], p[2])
    \/ \E p \in FarPointers : handleCanvasMouseMove(p[1], p[2])
    \/ handleCanvasMouseUp
    \/ handleCanvasMouseLeave
    \/ \E v \in GenderRange : handleGenderChange(v)
    \/ \E v \in QualityRange : handleQualityChange(v)

SpecControls == Init /\ [][NextControls]_vars

\* C13: after any sequence of widget events (chart click or drag at any
\* pointer coordinate, gender slider 0..200, quality slider 0..100) the
\* core's control state is in its domain: x and y in [0,1], g in [0,2],
\* q in [-1,1].
C13_ControlInDomain ==
    /\ vowelX \in 0..PosUnits
    /\ vowelY \in 0..PosUnits
    /\ genderFactor \in 0..200
    /\ qualityFactor \in -50..50

\* the pointer dragged beyond the chart's top left corner, both sliders at
\* their greatest value
C13_Witness ==
    /\ vowelX = 0 /\ vowelY = PosUnits
    /\ genderFactor = 200 /\ qualityFactor = 50
    /\ isDragging

----------------------------------------------------------------------------
(* Q and the control state, under SpecCalls *)

\* 1 / (0.08 * m(q)) in Q units, rounded down
IdealQ(q) ==
    MulDiv(100 * QualityMult(q)[2], FracHz, 8 * QualityMult(q)[1])

\* Q is 1 / (0.08 * m(q)) to within the rounding of the bandwidth and of
\* the quotient: not below it, and above it by at most 1/2000 of it
NearIdealQ(Q, q) ==
    /\ Q >= IdealQ(q)
    /\ (Q - IdealQ(q)) * 2000 <= IdealQ(q)

\* C18: the Q applied to the filters does not depend on position or
\* gender: for every control state with positive frequencies all 3 bands
\* receive the same Q = 1 / (0.08 * m(q)) (12.5 at q = 0), equal to within
\* the arithmetic's rounding; changing x, y or g changes only the
\* frequencies and changing q changes only the Q values: the frequencies
\* are those of the same position and gender at q = 0.
C18_QFromQualityAlone ==
    (call = "recompute" /\ \A i \in 1..3 : ret.targets[i].frequency > 0) =>
        \A i \in 1..3 :
            /\ NearIdealQ(ret.targets[i].Q, qualityFactor)
            /\ ret.targets[i].frequency =
                   FilterTargets(vowelX, vowelY, genderFactor, 0)[i].frequency

\* the pipeline run away from the defaults: 3 different frequencies, each
\* with Q = 1 / (0.08 * 0.7), about 17.857
C18_Witness ==
    /\ call = "recompute"
    /\ vowelX = 90 /\ vowelY = 90
    /\ genderFactor = 150 /\ qualityFactor = -50
    /\ ret.targets[1].frequency < ret.targets[2].frequency
    /\ ret.targets[2].frequency < ret.targets[3].frequency
    /\ \A i \in 1..3 : ret.targets[i].Q \div (FracHz \div 100) = 1785

----------------------------------------------------------------------------
(* Properties of the two widgets, under SpecWidgets *)

\* a toggleAudio of the vowel widget whose start() throws
FailedStart ==
    /\ ~isRunning
    /\ \E t \in ThrowPoints \ {"none"} : toggleAudio(t)

\* a toggleAudio of the sawtooth widget whose start() throws
SawtoothFailedStart ==
    /\ ~sawCore.isRunning
    /\ \E t \in SawtoothThrowPoints \ {"none"} : SawtoothToggleAudio(t)

\* a failed start leaves the core's flag false, which is the condition on
\* which the next toggleAudio calls start() (line 259); the widget stays
\* mounted and shows "stopped"; the waveform loop is as it was, with no
\* request pending
FailureHandled ==
    /\ FailedStart =>
           /\ ~isRunning' /\ ~uiIsRunning' /\ mounted'
           /\ frameRequests' = {}
           /\ UNCHANGED <<animationFrameRef, waveformCanvas>>
    /\ SawtoothFailedStart =>
           /\ ~sawCore'.isRunning /\ ~sawWidget'.isRunning
           /\ sawWidget'.mounted
           /\ sawWidget'.frameRequests = {}
           /\ sawWidget'.animationFrameRef = sawWidget.animationFrameRef
           /\ sawWidget'.waveformCanvas = sawWidget.waveformCanvas

\* C14: if audio initialization throws at any step inside start() (vowel
\* synthesizer or sawtooth generator), start() ends with isRunning false
\* and rethrows; toggleAudio then leaves the widget's isRunning flag false
\* and does not start the waveform animation, and a later toggle attempts
\* start() again.
C14_FailedStartLeavesStopped == [][FailureHandled]_vars

\* the vowel widget running and animated after a start that failed
\* part-way and left its context behind: a later toggle has started it
C14_Witness ==
    /\ mounted
    /\ orphans = {"created"}
    /\ isRunning /\ uiIsRunning
    /\ audioContext = "running" /\ oscillator.state = "started"
    /\ frameRequests # {}

----------------------------------------------------------------------------
(* Properties of the two cores under direct calls, under SpecCores *)

\* the context the vowel core refers to is open and its oscillator started
Playing ==
    audioContext = "running" /\ oscillator.node /\ oscillator.state = "started"

\* the same of the sawtooth core
SawtoothPlaying ==
    /\ sawCore.audioContext = "running"
    /\ sawCore.oscillator.node
    /\ sawCore.oscillator.state = "started"

\* no context the core has let go of still has a started oscillator, and
\* the one it refers to has one exactly when isRunning
OneSessionAtMost ==
    /\ "started" \notin orphans
    /\ isRunning <=> Playing
    /\ "started" \notin sawCore.orphans
    /\ sawCore.isRunning <=> SawtoothPlaying

\* start() while running and stop() while stopped change nothing
IdleCallsDoNothing ==
    /\ (isRunning /\ \E t \in ThrowPoints : CallStart(t)) =>
           UNCHANGED vars
    /\ (~isRunning /\ CallStop) => UNCHANGED vars
    /\ (sawCore.isRunning
          /\ \E t \in SawtoothThrowPoints : CallSawtoothStart(t)) =>
           UNCHANGED vars
    /\ (~sawCore.isRunning /\ CallSawtoothStop) => UNCHANGED vars

\* C15: for each synthesizer core, after any sequence of start() and
\* stop() calls (starts that fail part-way included) at most one audio
\* context is open with a started oscillator, and one is open exactly
\* when isRunning is true: start() while running creates nothing new,
\* stop() while stopped does nothing, and whenever isRunning is false no
\* oscillator created by this core is still playing.
C15_OneSessionWhenRunning == []OneSessionAtMost /\ [][IdleCallsDoNothing]_vars

\* the vowel core playing after a start that failed part-way, the
\* sawtooth core stopped after a session that followed a failed start
C15_Witness ==
    /\ isRunning /\ Playing
    /\ orphans = {"created"}
    /\ ~sawCore.isRunning
    /\ sawCore.orphans = {"created"}
    /\ sawCore.audioContext = "closed"
    /\ sawCore.oscillator.state = "stopped"

----------------------------------------------------------------------------
(* Properties of the two widgets' display and waveform loop, under
   SpecWidgets *)

\* C16: while a widget is mounted, after every completed toggleAudio call
\* (successful start, failed start or stop) the widget's displayed
\* isRunning flag equals the core's isRunning flag.
C16_LabelMatchesCore ==
    /\ mounted => uiIsRunning = isRunning
    /\ sawWidget.mounted => sawWidget.isRunning = sawCore.isRunning

\* the sawtooth widget showing "running" after a start that failed
\* part-way and a later one that did not
C16_Witness ==
    /\ sawWidget.mounted
    /\ sawWidget.isRunning /\ sawCore.isRunning
    /\ sawCore.orphans = {"created"}

\* at most one request is pending, and none unless the widget is mounted
\* and its core running
LoopWithinSession ==
    /\ Cardinality(frameRequests) <= 1
    /\ frameRequests # {} => (mounted /\ isRunning)
    /\ Cardinality(sawWidget.frameRequests) <= 1
    /\ sawWidget.frameRequests # {} =>
           (sawWidget.mounted /\ sawCore.isRunning)

\* a frame callback redraws and makes a new request only while the core
\* is running, and then it does both
CallbackWhileRunning ==
    /\ (\E id \in frameRequests : animationFrame(id)) =>
           /\ (frameRequests' # {}) <=> isRunning
           /\ isRunning => waveformCanvas' = "waveform"
           /\ ~isRunning => waveformCanvas' = waveformCanvas
    /\ (\E id \in sawWidget.frameRequests : SawtoothAnimationFrame(id)) =>
           /\ (sawWidget'.frameRequests # {}) <=> sawCore.isRunning
           /\ sawCore.isRunning => sawWidget'.waveformCanvas = "waveform"
           /\ ~sawCore.isRunning =>
                  sawWidget'.waveformCanvas = sawWidget.waveformCanvas

\* C17: for each widget, under any interleaving of toggleAudio calls,
\* animation-frame callbacks and unmount, at most one animation-frame
\* request is pending at any time; a frame callback redraws the waveform
\* and re-schedules itself only while the core is running; and after a
\* stop toggle or unmount no frame request remains pending.
C17_OneLoopPerSession == []LoopWithinSession /\ [][CallbackWhileRunning]_vars

\* the vowel widget's loop after a callback has made the second request
C17_Witness ==
    /\ mounted /\ isRunning
    /\ animationFrameRef = 2
    /\ frameRequests = {2}
    /\ waveformCanvas = "waveform"

====
